---- MODULE Spec2Model ----
(***************************************************************************)
(* A model of the per-frame simulation core of the CircumSolarSystem demo: *)
(* the ship-exhaust particle pool (src/src/getShipExhaust.js), the two     *)
(* requestAnimationFrame callback chains, the key handlers, the camera and *)
(* the orbits (src/index.js), and the sun's eruption particles             *)
(* (src/src/createSolarSystem.js).                                         *)
(*                                                                         *)
(* Units.  Time is counted in ticks of 1/60 s (the delta index.js passes   *)
(* to update), so 0.1 s is 6 ticks and 1 s is 60 ticks.  Velocities and    *)
(* sizes are in thousandths, positions in thousandths of a unit times a    *)
(* tick (1/60000), ship speeds in tenths.  Fractions (size, colour) are    *)
(* exact rationals <<numerator, denominator>>.  Math.random() is a         *)
(* nondeterministic draw; each use is modelled by a few of the values the  *)
(* expression it appears in can take.                                      *)
(***************************************************************************)
EXTENDS Integers, Sequences, FiniteSets, TLC

\* ------------------------------------------------------------------------
\* Bounds of the model (the options the pool is built with)
\* ------------------------------------------------------------------------
Count == 2
LifetimeMin == 2
LifetimeMax == 4
MaxInitCalls == 1
MaxCalls == 4

\* ------------------------------------------------------------------------
\* Program constants, in model units
\* ------------------------------------------------------------------------
SpeedMin == 200
SpeedMax == 600
SpreadX == 50
SpreadY == 50
SizeMin == 25
SizeMax == 50
MaxDelta == 6
ResetOvershoot == 60
TickDelta == 1

\* null, where a vector is expected
Null == <<>>

\* ------------------------------------------------------------------------
\* Arithmetic helpers
\* ------------------------------------------------------------------------
Min(a, b) == IF a < b THEN a ELSE b
Max(a, b) == IF a > b THEN a ELSE b
Abs(a) == IF a < 0 THEN -a ELSE a

\* Math.ceil(n / d) for d > 0
Ceil(n, d) == IF n >= 0 THEN (n + d - 1) \div d ELSE -((-n) \div d)

RECURSIVE GCD(_, _)
GCD(a, b) == IF b = 0 THEN a ELSE GCD(b, a % b)

\* exact rationals <<n, d>> with d > 0, in lowest terms
Rat(n, d) ==
  LET s == IF d < 0 THEN -1 ELSE 1
      g == GCD(Abs(n), Abs(d))
  IN  IF n = 0 THEN <<0, 1>> ELSE <<(s * n) \div g, (s * d) \div g>>
RInt(n) == <<n, 1>>
RAdd(p, q) == Rat(p[1] * q[2] + q[1] * p[2], p[2] * q[2])
RSub(p, q) == Rat(p[1] * q[2] - q[1] * p[2], p[2] * q[2])
RMul(p, q) == Rat(p[1] * q[1], p[2] * q[2])
RLt(p, q) == p[1] * q[2] < q[1] * p[2]
RMax(p, q) == IF RLt(p, q) THEN q ELSE p

\* three-vectors
Vec(x, y, z) == <<x, y, z>>
Zero3 == <<0, 0, 0>>
VAdd(a, b) == <<a[1] + b[1], a[2] + b[2], a[3] + b[3]>>
VScale(a, k) == <<a[1] * k, a[2] * k, a[3] * k>>
VNeg(a) == VScale(a, -1)
Cross(a, b) ==
  <<a[2] * b[3] - a[3] * b[2], a[3] * b[1] - a[1] * b[3], a[1] * b[2] - a[2] * b[1]>>
Dot(a, b) == a[1] * b[1] + a[2] * b[2] + a[3] * b[3]

\* Directions are vectors of length 5 (a unit vector in fifths), so that the
\* pitched headings (0, 3, -4)/5 and their bases are whole numbers.
\* (mutant) the sign of the factor is lost
Along_Unsigned(dir, k) ==
  <<(dir[1] * Abs(k)) \div 5, (dir[2] * Abs(k)) \div 5, (dir[3] * Abs(k)) \div 5>>

\* addScaledVector(dir, k) and multiplyScalar(k) of a direction
Along(dir, k) == <<(dir[1] * k) \div 5, (dir[2] * k) \div 5, (dir[3] * k) \div 5>>
\* Vector3.normalize, to a direction; the zero vector stays zero.  The cross
\* products of the grid's directions have length 0, 20 or 25.
Normalize(a) ==
  LET len == CHOOSE n \in {0, 20, 25} : n * n = Dot(a, a)
  IN  IF len = 0 THEN Zero3
      ELSE <<(a[1] * 5) \div len, (a[2] * 5) \div len, (a[3] * 5) \div len>>

\* ------------------------------------------------------------------------
\* Math.random(): the sampled results, as fractions in [0, 1)
\* ------------------------------------------------------------------------
RandomSamples == {<<0, 1>>, <<1, 2>>}
\* the draws whose spread the model keeps to one sample
RandomMid == {<<1, 2>>}
RandomLow == {<<0, 1>>}

\* Math.random() * width, for a sample r (exact on the samples used)
Scaled(r, width) == (r[1] * width) \div r[2]
\* (Math.random() - 0.5) * width
Centered(r, width) == ((2 * r[1] - r[2]) * width) \div (2 * r[2])
\* Math.random() * (hi - lo) + lo on the tick grid: every tick value in [lo, hi)
RandomTicks(lo, hi) == {t \in lo..Max(lo, hi) : t = lo \/ t < hi}

\* ------------------------------------------------------------------------
\* The exhaust pool: getShipExhaust's closure state
\* ------------------------------------------------------------------------
VARIABLES
  positions,         \* positions[i]: Float32Array, three per particle
  velocities,        \* velocities[i]: {x, y, z}
  sizes,             \* sizes[i]: the buffer of the geometry's size attribute
  colors,            \* colors[i]: <<r, g, b>>
  lifetimes,         \* lifetimes[i]: the particle's age
  maxLifetimes,      \* maxLifetimes[i]
  emitterPositions,  \* emitterPositions[0], emitterPositions[1]
  activeParticles,   \* particles respawned so far by the running update
  baseSizes,         \* the value sizes[i] was given at construction (history)
  respawned,         \* the particles the last update respawned (history)
  initCalls,         \* how many times init has been called (history)
  calls,             \* how many calls have been made on the pool (history)
  call               \* the last call made on the pool, its arguments and, for
                     \* update, the call made before it (history)

exhaustVars ==
  <<positions, velocities, sizes, colors, lifetimes, maxLifetimes,
    emitterPositions, activeParticles, baseSizes, respawned, initCalls, calls, call>>

Particles == 0..(Count - 1)
Emitters == {0, 1}

\* emitterIndices[i] = i < config.count / 2 ? 0 : 1
emitterIndices(i) == IF 2 * i < Count THEN 0 ELSE 1

Cyan == <<RInt(0), RInt(1), RInt(1)>>

\* the closure state as one value, so that calls compose
Ex ==
  [positions |-> positions, velocities |-> velocities, sizes |-> sizes,
   colors |-> colors, lifetimes |-> lifetimes, maxLifetimes |-> maxLifetimes,
   emitterPositions |-> emitterPositions, activeParticles |-> activeParticles,
   respawned |-> respawned]

SetEx(e) ==
  /\ positions' = e.positions
  /\ velocities' = e.velocities
  /\ sizes' = e.sizes
  /\ colors' = e.colors
  /\ lifetimes' = e.lifetimes
  /\ maxLifetimes' = e.maxLifetimes
  /\ emitterPositions' = e.emitterPositions
  /\ activeParticles' = e.activeParticles
  /\ respawned' = e.respawned
  /\ baseSizes' = baseSizes

\* the ship's basis as index.js computes it from a heading
WorldUp == <<0, 5, 0>>
RightOf(dir) == Normalize(Cross(dir, WorldUp))
UpOf(dir) == Normalize(Cross(RightOf(dir), dir))
BasisOf(dir) == [backwardDir |-> VNeg(dir), rightDir |-> RightOf(dir), upDir |-> UpOf(dir)]
NoBasis == [backwardDir |-> Null, rightDir |-> Null, upDir |-> Null]

\* exhaustOffset = sideOffset = 0.001, verticalOffset = -0.001, in position units
EmitterOffset == 60
LeftEmitterPos(dir) ==
  VAdd(VAdd(Along(dir, -EmitterOffset), Along(RightOf(dir), EmitterOffset)),
       Along(UpOf(dir), -EmitterOffset))
RightEmitterPos(dir) ==
  VAdd(VAdd(Along(dir, -EmitterOffset), Along(RightOf(dir), -EmitterOffset)),
       Along(UpOf(dir), -EmitterOffset))

\* ------------------------------------------------------------------------
\* Construction (getShipExhaust, the initialisation loop)
\* ------------------------------------------------------------------------
InitialVelocities ==
  {<<Centered(rx, SpreadX), Centered(ry, SpreadY), Scaled(rz, SpeedMax) + SpeedMin>> :
     rx \in RandomMid, ry \in RandomMid, rz \in RandomLow}
InitialSizes ==
  {RAdd(RMul(r, RInt(SizeMax - SizeMin)), RInt(SizeMin)) : r \in RandomLow}
LifetimeDraws == RandomTicks(LifetimeMin, LifetimeMax)

ExhaustInit ==
  /\ positions = [i \in Particles |-> Zero3]
  /\ colors = [i \in Particles |-> Cyan]
  /\ velocities \in [Particles -> InitialVelocities]
  /\ sizes \in [Particles -> InitialSizes]
  /\ maxLifetimes \in [Particles -> LifetimeDraws]
  /\ lifetimes = [i \in Particles |-> 0]
  /\ emitterPositions = [k \in Emitters |-> Zero3]
  /\ activeParticles = 0
  /\ baseSizes = sizes
  /\ respawned = {}
  /\ initCalls = 0
  /\ calls = 0
  /\ call = [op |-> "getShipExhaust"]

\* ------------------------------------------------------------------------
\* update(delta, shipVelocity, isBoost, backwardDir, rightDir, upDir)
\* ------------------------------------------------------------------------
\* (mutant) the budget granted once per emitter
particlesPerEmitter_Doubled(shipVelocity, isBoost) ==
  2 * (IF isBoost THEN Min(3, Ceil(shipVelocity * 1, 10))
                  ELSE Min(1, Ceil(shipVelocity, 20)))

\* particlesPerEmitter; shipVelocity is in tenths
particlesPerEmitter(shipVelocity, isBoost) ==
  IF isBoost THEN Min(3, Ceil(shipVelocity * 1, 10))
             ELSE Min(1, Ceil(shipVelocity, 20))

hasShipDirections(a) ==
  a.backwardDir # Null /\ a.rightDir # Null /\ a.upDir # Null

\* speedFactor = Math.max(0.8, shipVelocity), in tenths
speedFactor(shipVelocity) == Max(8, shipVelocity)

\* the random draws of one respawn
SpawnDraws ==
  [randomRight : RandomLow, randomUp : RandomMid, randomBack : RandomMid,
   life : LifetimeDraws]

\* (mutant) without a basis the velocity goes along -z
SpawnVelocity_AlongMinusZ(a, d) ==
  LET right == Centered(d.randomRight, SpreadX)
      up == Centered(d.randomUp, SpreadY)
      back == Scaled(d.randomBack, (SpeedMax * speedFactor(a.shipVelocity)) \div 10) + SpeedMin
  IN  IF hasShipDirections(a)
      THEN VAdd(VAdd(Along(a.backwardDir, back), Along(a.rightDir, right)),
                Along(a.upDir, up))
      ELSE <<right, up, -back>>

\* the velocity given to a respawned particle
SpawnVelocity(a, d) ==
  LET right == Centered(d.randomRight, SpreadX)
      up == Centered(d.randomUp, SpreadY)
      back == Scaled(d.randomBack, (SpeedMax * speedFactor(a.shipVelocity)) \div 10) + SpeedMin
  IN  IF hasShipDirections(a)
      THEN VAdd(VAdd(Along(a.backwardDir, back), Along(a.rightDir, right)),
                Along(a.upDir, up))
      ELSE <<right, up, back>>

\* lifeRatio = lifetimes[i] / maxLifetimes[i]
lifeRatio(age, maxAge) == Rat(age, maxAge)

sizeMultiplier(ratio) ==
  IF RLt(ratio, Rat(2, 10))
  THEN RMul(ratio, RInt(5))
  ELSE RSub(RInt(1), RMul(RSub(ratio, Rat(2, 10)), Rat(125, 100)))

\* the colour of a live particle: unchanged in the first half of its life
AgedColor(old, ratio) ==
  IF RLt(Rat(5, 10), ratio)
  THEN LET colorRatio == RMul(RSub(ratio, Rat(5, 10)), RInt(2))
       IN  <<RInt(0),
             RMax(RInt(0), RSub(RInt(1), RMul(colorRatio, Rat(8, 10)))),
             RMax(Rat(2, 10), RSub(RInt(1), RMul(colorRatio, Rat(5, 10))))>>
  ELSE old

\* (mutant) a respawn that forgets to reset the age
Respawn_KeepsAge(e, i, a, d) ==
  [e EXCEPT !.positions[i] = e.emitterPositions[emitterIndices(i)],
            !.velocities[i] = SpawnVelocity(a, d),
            !.maxLifetimes[i] = d.life,
            !.colors[i] = Cyan,
            !.activeParticles = @ + 1,
            !.respawned = @ \cup {i}]

\* (mutant) a respawn that always uses the left emitter's anchor
Respawn_AtLeftEmitter(e, i, a, d) ==
  [e EXCEPT !.positions[i] = e.emitterPositions[0],
            !.velocities[i] = SpawnVelocity(a, d),
            !.lifetimes[i] = 0,
            !.maxLifetimes[i] = d.life,
            !.colors[i] = Cyan,
            !.activeParticles = @ + 1,
            !.respawned = @ \cup {i}]

\* the respawn branch of the loop body, for one choice of the draws
Respawn(e, i, a, d) ==
  [e EXCEPT !.positions[i] = e.emitterPositions[emitterIndices(i)],
            !.velocities[i] = SpawnVelocity(a, d),
            !.lifetimes[i] = 0,
            !.maxLifetimes[i] = d.life,
            !.colors[i] = Cyan,
            !.activeParticles = @ + 1,
            !.respawned = @ \cup {i}]

\* the else branch: integrate, age, resize and recolour a live particle.
\* The size is written to geometry.attributes.size.array, which is the
\* sizes buffer itself, so the factor read on the next step is this result.
Integrate(e, i, delta) ==
  LET age == e.lifetimes[i] + delta
      ratio == lifeRatio(age, e.maxLifetimes[i])
      size == RMul(e.sizes[i], RMax(RInt(0), sizeMultiplier(ratio)))
  IN  [e EXCEPT !.positions[i] = VAdd(@, VScale(e.velocities[i], delta)),
                !.lifetimes[i] = age,
                !.sizes[i] = size,
                !.colors[i] = AgedColor(@, ratio)]

\* (mutant) a dead particle that is not respawned is aged and moved all the same
UpdateParticle_AgesDead(e, i, a, delta) ==
  IF e.lifetimes[i] >= e.maxLifetimes[i]
       /\ e.activeParticles < particlesPerEmitter(a.shipVelocity, a.isBoost)
  THEN {Respawn(e, i, a, d) : d \in SpawnDraws}
  ELSE {Integrate(e, i, delta)}

\* (mutant) a dead particle that is not respawned is hidden: its size is zeroed
UpdateParticle_HidesDead(e, i, a, delta) ==
  IF e.lifetimes[i] >= e.maxLifetimes[i]
  THEN IF e.activeParticles < particlesPerEmitter(a.shipVelocity, a.isBoost)
       THEN {Respawn(e, i, a, d) : d \in SpawnDraws}
       ELSE {[e EXCEPT !.sizes[i] = RInt(0)]}
  ELSE {Integrate(e, i, delta)}

\* one iteration of the loop: the states it can leave
UpdateParticle(e, i, a, delta) ==
  IF e.lifetimes[i] >= e.maxLifetimes[i]
  THEN IF e.activeParticles < particlesPerEmitter(a.shipVelocity, a.isBoost)
       THEN {Respawn(e, i, a, d) : d \in SpawnDraws}
       ELSE {e}
  ELSE {Integrate(e, i, delta)}

\* (mutant) the loop runs from the last particle down to the first
RECURSIVE UpdateLoop_Descending(_, _, _, _)
UpdateLoop_Descending(e, i, a, delta) ==
  IF i >= Count THEN {e}
  ELSE UNION {UpdateLoop_Descending(e2, i + 1, a, delta) :
                e2 \in UpdateParticle(e, Count - 1 - i, a, delta)}

\* the loop over the pool, from particle i on: the states it can leave
RECURSIVE UpdateLoop(_, _, _, _)
UpdateLoop(e, i, a, delta) ==
  IF i >= Count THEN {e}
  ELSE UNION {UpdateLoop(e2, i + 1, a, delta) : e2 \in UpdateParticle(e, i, a, delta)}

\* (mutant) delta is not clamped
UpdateResults_Unclamped(e, a) ==
  {[e2 EXCEPT !.activeParticles = 0] :
     e2 \in UpdateLoop([e EXCEPT !.respawned = {}], 0, a, a.delta)}

\* the states update can leave: delta is clamped, the loop runs, and the
\* spawn counter is cleared at the end
UpdateResults(e, a) ==
  LET delta == Min(a.delta, MaxDelta)
  IN  {[e2 EXCEPT !.activeParticles = 0] :
         e2 \in UpdateLoop([e EXCEPT !.respawned = {}], 0, a, delta)}

\* (mutant) moving the anchors drags the particles along
SetEmitterPositionsResult_Snaps(e, leftPos, rightPos) ==
  [e EXCEPT !.emitterPositions = [k \in Emitters |-> IF k = 0 THEN leftPos ELSE rightPos],
            !.positions = [i \in Particles |->
                             IF emitterIndices(i) = 0 THEN leftPos ELSE rightPos]]

\* setEmitterPositions(leftPos, rightPos)
SetEmitterPositionsResult(e, leftPos, rightPos) ==
  [e EXCEPT !.emitterPositions = [k \in Emitters |-> IF k = 0 THEN leftPos ELSE rightPos]]

\* (mutant) the ages are set to maxAge itself, as the comment in the loop says
ClearAllParticlesResult_AtMaxAge(e) ==
  [e EXCEPT !.lifetimes = [i \in Particles |-> e.maxLifetimes[i]],
            !.positions = [i \in Particles |-> e.emitterPositions[emitterIndices(i)]],
            !.activeParticles = 0]

\* (mutant) only the left emitter's particles are cleared
ClearAllParticlesResult_LeftOnly(e) ==
  [e EXCEPT !.lifetimes = [i \in Particles |->
                             IF emitterIndices(i) = 0
                             THEN e.maxLifetimes[i] + ResetOvershoot
                             ELSE e.lifetimes[i]],
            !.positions = [i \in Particles |->
                             IF emitterIndices(i) = 0
                             THEN e.emitterPositions[0]
                             ELSE e.positions[i]],
            !.activeParticles = 0]

\* clearAllParticles()
ClearAllParticlesResult(e) ==
  [e EXCEPT !.lifetimes = [i \in Particles |-> e.maxLifetimes[i] + ResetOvershoot],
            !.positions = [i \in Particles |-> e.emitterPositions[emitterIndices(i)]],
            !.activeParticles = 0]

\* ------------------------------------------------------------------------
\* init(backwardDir, rightDir, upDir)
\* ------------------------------------------------------------------------
\* Math.min(20, config.count): the program's pool of 100 is warmed up to its
\* 20th particle; the limit is scaled with the model's pool, so that the pool
\* keeps particles beyond it
InitialParticleLimit == 1

\* (mutant) every particle of the pool is warmed
initialParticleCount_Whole == Count

initialParticleCount == Min(InitialParticleLimit, Count)

\* Math.random() * maxLifetimes[i] * 0.7 on the tick grid: the two youngest
\* of the ages in [0, 0.7 * maxAge)
WarmAges(maxAge) == {t \in {0, 1} : t = 0 \/ 10 * t < 7 * maxAge}

\* the random draws init makes for one particle
WarmDraws(maxAge) ==
  [randomRight : RandomMid, randomUp : RandomMid, randomBack : RandomLow,
   velRandomRight : RandomMid, velRandomUp : RandomMid, velRandomBack : RandomLow,
   age : WarmAges(maxAge)]

WarmParticle(e, i, a, d) ==
  LET emitterPos == e.emitterPositions[emitterIndices(i)]
      right == Centered(d.randomRight, 6000)
      up == Centered(d.randomUp, 6000)
      back == Centered(d.randomBack, 48000) - 6000
      velRight == Centered(d.velRandomRight, (SpreadX * 15) \div 10)
      velUp == Centered(d.velRandomUp, (SpreadY * 15) \div 10)
      velBack == Scaled(d.velRandomBack, SpeedMax * 2) + SpeedMin
      based == a.backwardDir # Null /\ a.rightDir # Null /\ a.upDir # Null
  IN  [e EXCEPT
         !.positions[i] =
            IF based
            THEN VAdd(emitterPos,
                      VAdd(VAdd(Along(a.rightDir, right), Along(a.upDir, up)),
                           Along(a.backwardDir, back)))
            ELSE VAdd(emitterPos, <<right, up, back>>),
         !.velocities[i] =
            IF based
            THEN VAdd(VAdd(Along(a.backwardDir, velBack), Along(a.rightDir, velRight)),
                      Along(a.upDir, velUp))
            ELSE <<velRight, velUp, velBack>>,
         !.lifetimes[i] = d.age,
         !.colors[i] = Cyan]

RECURSIVE InitLoop(_, _, _)
InitLoop(e, i, a) ==
  IF i >= initialParticleCount THEN {e}
  ELSE UNION {InitLoop(WarmParticle(e, i, a, d), i + 1, a) :
                d \in WarmDraws(e.maxLifetimes[i])}

InitResults(e, a) == InitLoop(e, 0, a)

\* ------------------------------------------------------------------------
\* The pool driven through its interface, in any order
\* ------------------------------------------------------------------------
Headings == {<<0, 0, -5>>, <<5, 0, 0>>}
\* a basis that differs from the default axes, no basis, and a basis with one
\* of the three vectors missing
ShipBasis == BasisOf(<<5, 0, 0>>)
PartialBasis == [ShipBasis EXCEPT !.rightDir = Null]
BasisArgs == {ShipBasis, NoBasis, PartialBasis}

Args(dt, v, b, d) ==
  [delta |-> dt, shipVelocity |-> v, isBoost |-> b,
   backwardDir |-> d.backwardDir, rightDir |-> d.rightDir, upDir |-> d.upDir]

\* The calls of update the model makes.  The deltas are 1/60 s and one above
\* the clamp; the speeds are 0, baseSpeed 0.4, boostSpeed 1.2 and 4.0, which
\* is above both caps of the budget.
UpdateArgs ==
  {Args(TickDelta, 4, FALSE, ShipBasis),
   Args(TickDelta, 12, TRUE, ShipBasis),
   Args(MaxDelta + 1, 4, FALSE, ShipBasis),
   Args(MaxDelta + 1, 40, TRUE, NoBasis),
   Args(TickDelta, 40, FALSE, PartialBasis),
   Args(TickDelta, 0, FALSE, NoBasis),
   Args(MaxDelta + 1, 0, TRUE, ShipBasis)}

\* one more call may be made on the pool
MayCall == calls < MaxCalls

update(a) ==
  /\ MayCall
  /\ \E e \in UpdateResults(Ex, a) : SetEx(e)
  /\ call' = [op |-> "update", args |-> a, prev |-> call.op]
  /\ calls' = calls + 1
  /\ UNCHANGED initCalls

setEmitterPositions(leftPos, rightPos) ==
  /\ MayCall
  /\ SetEx(SetEmitterPositionsResult(Ex, leftPos, rightPos))
  /\ call' = [op |-> "setEmitterPositions", args |-> <<leftPos, rightPos>>]
  /\ calls' = calls + 1
  /\ UNCHANGED initCalls

clearAllParticles ==
  /\ MayCall
  /\ SetEx(ClearAllParticlesResult(Ex))
  /\ call' = [op |-> "clearAllParticles"]
  /\ calls' = calls + 1
  /\ UNCHANGED initCalls

init(a) ==
  /\ MayCall
  /\ initCalls < MaxInitCalls
  /\ \E e \in InitResults(Ex, a) : SetEx(e)
  /\ initCalls' = initCalls + 1
  /\ call' = [op |-> "init", args |-> a]
  /\ calls' = calls + 1


\* ------------------------------------------------------------------------
\* index.js: the ship, the controls and the two frame callbacks
\* ------------------------------------------------------------------------
\* Ship speeds are in tenths per frame, ship positions in thousandths.  The
\* ship's orientation is kept on a grid: four headings about the world's up
\* axis, three pitches (level, and 3-4-5 up and down) and three rolls.  A frame
\* of blending toward a target orientation is abstracted as reaching it: a
\* frame of banking is a quarter turn and a step of roll, a frame of pitching
\* a step of pitch, and a frame of auto-levelling brings the roll to zero and
\* leaves the heading as it is.  Date.now() is not
\* modelled: the float-bob sine is a draw from SinSamples.
VARIABLES
  shipControls,      \* the control flags and the current speed
  loaded,            \* gladiatorGroup.children.length > 0: the model is loaded
  shipPosition,      \* gladiatorGroup.position
  shipDirection,     \* the ship's forward vector, -getWorldDirection
  shipRoll,          \* the ship's bank about its forward vector, in grid steps
  userData,          \* shipExhaust.particles.userData
  visible,           \* shipExhaust.particles.visible
  particlesPosition, \* shipExhaust.particles.position
  rafQueue,          \* callbacks registered for the next animation frame
  frameCallbacks,    \* callbacks of the running frame that are still to run
  frame,             \* number of the running (or last) animation frame
  scriptPc,          \* where the top-level script of index.js is
  keyEvents,         \* the key events delivered so far (history)
  event,             \* the last key event, the controls it found, whether no
                     \* frame has begun since, and whether it took back the
                     \* keydown before it (history)
  held,              \* the keys that are down on the keyboard (history)
  cameraPosition,    \* camera.position
  systemPosition,    \* the position of each body's group, in fifths of a unit
  lastAdvance,       \* what the last run of animate found (history)
  poseFrame,         \* the frame whose animate produced the ship pose (history)
  stepRead           \* the frame of the last exhaust step and the poseFrame it read (history)

appVars ==
  <<shipControls, loaded, shipPosition, shipDirection, shipRoll, userData, visible,
    particlesPosition, rafQueue, frameCallbacks, frame, scriptPc, keyEvents,
    event, held, cameraPosition,
                 systemPosition, lastAdvance, poseFrame, stepRead>>

\* createSolarSystem.js: the sun's eruption particles.  They share no state
\* with the ship, the camera, the bodies or the exhaust pool; animate passes
\* their update the frame's delta, and the update is driven here with deltas
\* of its own, in a specification of its own (SpecEruption).
VARIABLES
  sunEruptionSystem, \* positions, velocities, lifeTimes, sizes of the particles
  eruptionDelta      \* the delta of the last update (history)

eruptionVars == <<sunEruptionSystem, eruptionDelta>>

vars == <<exhaustVars, appVars, eruptionVars>>

BaseSpeed == 4
BoostSpeed == 12
MaxFrames == 3
MaxKeyEvents == 2
\* the key presses and releases before the first frame (SpecKeys)
MaxKeyPresses == 3

KeyCodes == {"KeyW", "KeyS", "KeyA", "KeyD", "ShiftLeft", "ShiftRight", "Space"}
\* Math.sin(Date.now() * 0.001), in thousandths
SinSamples == {0, 1000}

\* The bodies animate moves on circles, with their distance in hundredths of
\* an astronomical unit; the moon circles the earth's group.
Planets ==
  {"mercury", "venus", "earth", "mars", "jupiter", "saturn", "uranus", "neptune", "pluto"}
Bodies == Planets \cup {"moon"}
AU_SCALE == 400
EARTH_RADIUS == 10
AU ==
  [mercury |-> 39, venus |-> 72, earth |-> 100, mars |-> 152, jupiter |-> 520,
   saturn |-> 954, uranus |-> 1920, neptune |-> 3006, pluto |-> 3950]

\* the distance a body is created at: AU_SCALE * <BODY>_AU, EARTH_RADIUS * 2.5
Amplitude(b) ==
  IF b = "moon" THEN (EARTH_RADIUS * 25) \div 10 ELSE (AU_SCALE * AU[b]) \div 100

\* the factor animate applies to cos and sin of the body's orbit angle
OrbitAmplitude(b) ==
  IF b = "mercury" THEN (Amplitude(b) * 5) \div 15 ELSE Amplitude(b)

\* (cos, sin) of an orbit angle, in fifths
UnitSamples == <<<<5, 0>>, <<3, 4>>, <<0, 5>>, <<-4, 3>>>>
BodyIndex ==
  [mercury |-> 0, venus |-> 1, earth |-> 2, moon |-> 3, mars |-> 4, jupiter |-> 5,
   saturn |-> 6, uranus |-> 7, neptune |-> 8, pluto |-> 9]

\* Date.now() as animate reads it: the sine of the float bob and, for each
\* body, the point of the unit circle at its orbit angle (the bodies turn at
\* different rates, so their angles differ at any one time)
TimeSamples == {[sin |-> s, turn |-> IF s = 0 THEN 0 ELSE 1] : s \in SinSamples}
OrbitPoint(now, b) == UnitSamples[((now.turn + BodyIndex[b]) % 4) + 1]

\* <body>System.position.x and .z as animate sets them; y is left alone
OrbitPosition(now, b, old) ==
  <<OrbitPoint(now, b)[1] * OrbitAmplitude(b), old[2], OrbitPoint(now, b)[2] * OrbitAmplitude(b)>>

\* (mutant) no change of direction is large enough
AngleExceeds_Never(a, b) == FALSE

\* a.angleTo(b) > 0.174 for directions: cos of the angle, Dot / 25, below
\* cos(0.174) = 0.985
AngleExceeds(a, b) == Dot(a, b) * 40 < 985

\* a quarter turn about the world's up axis, to the left and to the right
TurnLeft(dir) == <<dir[3], dir[2], -dir[1]>>
TurnRight(dir) == <<-dir[3], dir[2], dir[1]>>

\* the pitch of a direction in grid steps: -1 down, 0 level, 1 up
PitchOf(dir) == IF dir[2] > 0 THEN 1 ELSE IF dir[2] < 0 THEN -1 ELSE 0
\* the level heading under a direction
LevelOf(dir) ==
  IF dir[2] = 0 THEN dir ELSE <<(dir[1] * 5) \div 4, 0, (dir[3] * 5) \div 4>>
\* setFromAxisAngle(rightDirection, +-0.02) applied to a direction: n steps of
\* pitch about the ship's right axis, kept on the grid
Pitch(dir, n) ==
  LET level == Max(-1, Min(1, PitchOf(dir) + n))
      h == LevelOf(dir)
  IN  IF level = 0 THEN h ELSE <<(h[1] * 4) \div 5, 3 * level, (h[3] * 4) \div 5>>
\* setFromAxisAngle(direction, +-bankAngle) applied to a roll: n steps of
\* roll about the ship's forward axis, kept on the grid
Bank(roll, n) == Max(-1, Min(1, roll + n))

AppInit ==
  /\ shipControls = [pitchUp |-> FALSE, pitchDown |-> FALSE, bankLeft |-> FALSE,
                     bankRight |-> FALSE, boost |-> FALSE, stop |-> FALSE,
                     speed |-> BaseSpeed]
  /\ loaded = FALSE
  /\ shipPosition = Zero3
  /\ shipDirection = <<0, 0, -5>>
  /\ shipRoll = 0
  /\ userData = [initialized |-> FALSE, lastDirection |-> Null, lastBoostState |-> Null]
  /\ visible = TRUE
  /\ particlesPosition = Zero3
  /\ rafQueue = <<>>
  /\ frameCallbacks = <<>>
  /\ frame = 0
  /\ scriptPc = "tickParticles()"
  /\ keyEvents = 0
  /\ event = [type |-> "none", fresh |-> FALSE]
  /\ held = {}
  /\ cameraPosition = <<0, 0, 500000>>
  /\ systemPosition = [b \in Bodies |-> <<5 * Amplitude(b), 0, 0>>]
  /\ lastAdvance = [ran |-> FALSE]
  /\ poseFrame = 0
  /\ stepRead = [frame |-> 0, poseFrame |-> 0]

\* the exhaust history variables, for a handler that made the call c last,
\* after init if c.prev says so: initCalls counts the calls of init
AppCall(c) ==
  /\ call' = c
  /\ initCalls' = IF c.op = "init" \/ ("prev" \in DOMAIN c /\ c.prev = "init")
                  THEN initCalls + 1 ELSE initCalls
  /\ UNCHANGED calls


\* requestAnimationFrame(callback)
Register(queue, callback) == Append(queue, callback)

\* cameraOffset, in thousandths
cameraOffset == <<0, 1000, 2000>>

\* Vector3.applyMatrix4 of a local offset with the world matrix of a pose:
\* the local z axis is the ship's backward direction; the local x and y axes
\* are the right and up directions, turned about it by the roll (a step of
\* roll has cosine 4/5 and sine 3/5, so the two axes are in 25ths)
ApplyMatrix(offset, m) ==
  LET zAxis == VNeg(m.direction)
      right == RightOf(m.direction)
      up == UpOf(m.direction)
      xAxis == VAdd(VScale(right, 4), VScale(up, -3 * m.roll))
      yAxis == VAdd(VScale(up, 4), VScale(right, 3 * m.roll))
      local == VAdd(VScale(xAxis, offset[1]), VScale(yAxis, offset[2]))
  IN  VAdd(m.position,
           VAdd(<<local[1] \div 25, local[2] \div 25, local[3] \div 25>>,
                Along(zAxis, offset[3])))

\* (mutant) the camera moves half of the way
Lerp_Half(from, to) == [k \in 1..3 |-> from[k] + (to[k] - from[k]) \div 2]

\* camera.position.lerp(target, 0.05), to the thousandth
Lerp(from, to) == [k \in 1..3 |-> from[k] + (to[k] - from[k]) \div 20]

\* (mutant) the tick does not look at the stop flag
tickStopped_Never == FALSE

\* if (shipControls.stop), the test at the top of tickParticles
tickStopped == shipControls.stop

\* tickParticles(), the whole callback
tickParticles ==
  /\ rafQueue' = Register(rafQueue, "tickParticles")
  /\ UNCHANGED <<shipControls, loaded, shipPosition, shipDirection, shipRoll, keyEvents, event, held,
                 cameraPosition, systemPosition, lastAdvance,
                 poseFrame>>
  /\ IF tickStopped
     THEN /\ visible' = FALSE
          /\ UNCHANGED <<exhaustVars, userData, particlesPosition, stepRead>>
     ELSE /\ visible' = TRUE
          /\ IF ~loaded
             THEN UNCHANGED <<exhaustVars, userData, particlesPosition, stepRead>>
             ELSE LET basis == BasisOf(shipDirection)
                      e1 == SetEmitterPositionsResult(Ex, LeftEmitterPos(shipDirection),
                                                      RightEmitterPos(shipDirection))
                      changed ==
                        /\ userData.lastDirection # Null
                        /\ \/ AngleExceeds(basis.backwardDir, userData.lastDirection)
                           \/ userData.lastBoostState # shipControls.boost
                      e2 == IF changed THEN ClearAllParticlesResult(e1) ELSE e1
                      warm == IF userData.initialized THEN {e2} ELSE InitResults(e2, basis)
                      a == Args(TickDelta, shipControls.speed, shipControls.boost, basis)
                  IN  /\ particlesPosition' = shipPosition
                      /\ userData' = [initialized |-> TRUE,
                                      lastDirection |-> basis.backwardDir,
                                      lastBoostState |-> shipControls.boost]
                      /\ \E e3 \in warm : \E e4 \in UpdateResults(e3, a) : SetEx(e4)
                      /\ AppCall([op |-> "update", args |-> a,
                                  prev |-> IF ~userData.initialized THEN "init"
                                           ELSE IF changed THEN "clearAllParticles"
                                           ELSE "setEmitterPositions"])
                      /\ stepRead' = [frame |-> frame, poseFrame |-> poseFrame]

\* (mutant) the float bob is added to the ship's height
Floated_Accumulates(position, sin, c) ==
  LET floatAmount == IF c.pitchUp \/ c.pitchDown THEN 0 ELSE 2
  IN  [position EXCEPT ![2] = @ + sin * floatAmount]

\* gladiatorGroup.position.y = Math.sin(floatAngle) * floatAmount, the sine in
\* thousandths
Floated(position, sin, c) ==
  LET floatAmount == IF c.pitchUp \/ c.pitchDown THEN 0 ELSE 2
  IN  [position EXCEPT ![2] = sin * floatAmount]

\* (mutant) the pitch and bank keys count while the ship is stopped
needRotationUpdate_IgnoresStop(c) == c.pitchUp \/ c.pitchDown \/ c.bankLeft \/ c.bankRight

\* needRotationUpdate at the slerp: set by each of the four input branches,
\* which all test !shipControls.stop
needRotationUpdate(c) ==
  \/ c.pitchUp /\ ~c.stop
  \/ c.pitchDown /\ ~c.stop
  \/ c.bankLeft /\ ~c.stop
  \/ c.bankRight /\ ~c.stop

\* animate(timestamp): the ship section of the callback
animate ==
  /\ rafQueue' = Register(rafQueue, "animate")
  /\ UNCHANGED <<exhaustVars, shipControls, loaded, userData, visible,
                 particlesPosition, keyEvents, event, held, stepRead>>
  /\ poseFrame' = frame
  /\ \E now \in TimeSamples :
       LET c == shipControls
           sin == now.sin
           direction == shipDirection
           rightDirection == RightOf(direction)
           p0 == Floated(shipPosition, sin, c)
           p1 == IF ~c.stop THEN VAdd(p0, Along(direction, c.speed * 100)) ELSE p0
           p2 == IF c.bankLeft /\ ~c.stop
                 THEN VAdd(p1, Along(rightDirection, c.speed * 5)) ELSE p1
           p3 == IF c.bankRight /\ ~c.stop
                 THEN VAdd(p2, Along(rightDirection, -(c.speed * 5))) ELSE p2
           \* targetRotation: the rotations premultiplied onto the current one.
           \* The two pitch rotations are about one axis and the two bank
           \* rotations about one axis, so each pair composes to its sum.
           pitchSteps == (IF c.pitchUp /\ ~c.stop THEN 1 ELSE 0)
                         - (IF c.pitchDown /\ ~c.stop THEN 1 ELSE 0)
           bankSteps == (IF c.bankRight /\ ~c.stop THEN 1 ELSE 0)
                        - (IF c.bankLeft /\ ~c.stop THEN 1 ELSE 0)
           d0 == Pitch(direction, pitchSteps)
           d1 == IF c.bankLeft /\ ~c.stop THEN TurnLeft(d0) ELSE d0
           d2 == IF c.bankRight /\ ~c.stop THEN TurnRight(d1) ELSE d1
           targetRotation == [direction |-> d2, roll |-> Bank(shipRoll, bankSteps)]
           \* levelRotation: lookAt along the current direction with the world's up
           levelRotation == [direction |-> direction, roll |-> 0]
           \* quaternion.slerp(target, t), t in thousandths
           slerp == IF needRotationUpdate(c)
                    THEN [to |-> "targetRotation", t |-> 100, rotation |-> targetRotation]
                    ELSE [to |-> "levelRotation", t |-> 20, rotation |-> levelRotation]
           \* gladiatorGroup.matrixWorld when the camera reads it: last brought up
           \* to date by getWorldQuaternion, at line 530 before the translation
           \* or, on the auto-level branch, at line 597 after it; in both cases
           \* before the slerp
           matrixWorld == [position |-> IF needRotationUpdate(c) THEN p0 ELSE p3,
                           direction |-> direction, roll |-> shipRoll]
           targetCameraPosition == ApplyMatrix(cameraOffset, matrixWorld)
       IN  /\ systemPosition' = [b \in Bodies |-> OrbitPosition(now, b, systemPosition[b])]
           /\ shipPosition' = p3
           /\ shipDirection' = slerp.rotation.direction
           /\ shipRoll' = slerp.rotation.roll
           /\ cameraPosition' = IF c.boost
                                THEN Lerp(cameraPosition, targetCameraPosition)
                                ELSE targetCameraPosition
           /\ lastAdvance' = [ran |-> TRUE, position |-> shipPosition,
                              direction |-> shipDirection, roll |-> shipRoll,
                              camera |-> cameraPosition, controls |-> c,
                              slerp |-> [to |-> slerp.to, t |-> slerp.t]]

\* (mutant) the load callback runs init and leaves the initialized flag unset
modelLoaded_LeavesFlag ==
  /\ scriptPc = "idle"
  /\ frameCallbacks = <<>>
  /\ ~loaded
  /\ loaded' = TRUE
  /\ shipPosition' = VAdd(VScale(systemPosition["earth"], 200), <<0, 20000, 60000>>)
  /\ particlesPosition' = shipPosition'
  /\ LET basis == BasisOf(shipDirection)
         e1 == SetEmitterPositionsResult(Ex, LeftEmitterPos(shipDirection),
                                         RightEmitterPos(shipDirection))
     IN  IF userData.initialized
         THEN /\ SetEx(e1)
              /\ AppCall([op |-> "setEmitterPositions",
                          args |-> <<LeftEmitterPos(shipDirection),
                                     RightEmitterPos(shipDirection)>>])
              /\ UNCHANGED userData
         ELSE /\ \E e2 \in InitResults(e1, basis) : SetEx(e2)
              /\ AppCall([op |-> "init", args |-> basis])
              /\ UNCHANGED userData
  /\ UNCHANGED <<shipControls, shipDirection, shipRoll, visible, rafQueue, frameCallbacks,
                 frame, scriptPc, keyEvents, event, held, cameraPosition,
                 systemPosition, lastAdvance, poseFrame, stepRead>>

\* the success callback of gltfLoader.load
modelLoaded ==
  /\ scriptPc = "idle"
  /\ frameCallbacks = <<>>
  /\ ~loaded
  /\ loaded' = TRUE
  /\ shipPosition' = VAdd(VScale(systemPosition["earth"], 200), <<0, 20000, 60000>>)
  /\ particlesPosition' = shipPosition'
  /\ LET basis == BasisOf(shipDirection)
         e1 == SetEmitterPositionsResult(Ex, LeftEmitterPos(shipDirection),
                                         RightEmitterPos(shipDirection))
     IN  IF userData.initialized
         THEN /\ SetEx(e1)
              /\ AppCall([op |-> "setEmitterPositions",
                          args |-> <<LeftEmitterPos(shipDirection),
                                     RightEmitterPos(shipDirection)>>])
              /\ UNCHANGED userData
         ELSE /\ \E e2 \in InitResults(e1, basis) : SetEx(e2)
              /\ AppCall([op |-> "init", args |-> basis])
              /\ userData' = [userData EXCEPT !.initialized = TRUE]
  /\ UNCHANGED <<shipControls, shipDirection, shipRoll, visible, rafQueue, frameCallbacks,
                 frame, scriptPc, keyEvents, event, held, cameraPosition,
                 systemPosition, lastAdvance, poseFrame, stepRead>>

\* (mutant) the case of KeyW falls through into the case of KeyS
handleKeyDown_Fallthrough(code) ==
  /\ shipControls' =
       CASE code = "KeyW" -> [shipControls EXCEPT !.pitchUp = TRUE, !.pitchDown = TRUE]
         [] code = "KeyS" -> [shipControls EXCEPT !.pitchDown = TRUE]
         [] code = "KeyA" -> [shipControls EXCEPT !.bankLeft = TRUE]
         [] code = "KeyD" -> [shipControls EXCEPT !.bankRight = TRUE]
         [] code \in {"ShiftLeft", "ShiftRight"} ->
              [shipControls EXCEPT !.boost = TRUE, !.speed = BoostSpeed]
         [] code = "Space" -> [shipControls EXCEPT !.stop = TRUE]
         [] OTHER -> shipControls
  /\ IF code = "Space"
     THEN SetEx(ClearAllParticlesResult(Ex)) /\ AppCall([op |-> "clearAllParticles"])
     ELSE UNCHANGED exhaustVars

\* handleKeyDown(event)
handleKeyDown(code) ==
  /\ shipControls' =
       CASE code = "KeyW" -> [shipControls EXCEPT !.pitchUp = TRUE]
         [] code = "KeyS" -> [shipControls EXCEPT !.pitchDown = TRUE]
         [] code = "KeyA" -> [shipControls EXCEPT !.bankLeft = TRUE]
         [] code = "KeyD" -> [shipControls EXCEPT !.bankRight = TRUE]
         [] code \in {"ShiftLeft", "ShiftRight"} ->
              [shipControls EXCEPT !.boost = TRUE, !.speed = BoostSpeed]
         [] code = "Space" -> [shipControls EXCEPT !.stop = TRUE]
         [] OTHER -> shipControls
  /\ IF code = "Space"
     THEN SetEx(ClearAllParticlesResult(Ex)) /\ AppCall([op |-> "clearAllParticles"])
     ELSE UNCHANGED exhaustVars

\* (mutant) releasing shift leaves the speed as it is
handleKeyUp_KeepsSpeed(code) ==
  /\ shipControls' =
       CASE code = "KeyW" -> [shipControls EXCEPT !.pitchUp = FALSE]
         [] code = "KeyS" -> [shipControls EXCEPT !.pitchDown = FALSE]
         [] code = "KeyA" -> [shipControls EXCEPT !.bankLeft = FALSE]
         [] code = "KeyD" -> [shipControls EXCEPT !.bankRight = FALSE]
         [] code \in {"ShiftLeft", "ShiftRight"} ->
              [shipControls EXCEPT !.boost = FALSE]
         [] code = "Space" -> [shipControls EXCEPT !.stop = FALSE]
         [] OTHER -> shipControls
  /\ IF code = "Space"
     THEN SetEx(ClearAllParticlesResult(Ex)) /\ AppCall([op |-> "clearAllParticles"])
     ELSE UNCHANGED exhaustVars

\* (mutant) releasing space does not clear the pool
handleKeyUp_NoReset(code) ==
  /\ shipControls' =
       CASE code = "KeyW" -> [shipControls EXCEPT !.pitchUp = FALSE]
         [] code = "KeyS" -> [shipControls EXCEPT !.pitchDown = FALSE]
         [] code = "KeyA" -> [shipControls EXCEPT !.bankLeft = FALSE]
         [] code = "KeyD" -> [shipControls EXCEPT !.bankRight = FALSE]
         [] code \in {"ShiftLeft", "ShiftRight"} ->
              [shipControls EXCEPT !.boost = FALSE, !.speed = BaseSpeed]
         [] code = "Space" -> [shipControls EXCEPT !.stop = FALSE]
         [] OTHER -> shipControls
  /\ UNCHANGED exhaustVars

\* (mutant) boost is kept while the other shift key is down
handleKeyUp_CountsShifts(code) ==
  /\ shipControls' =
       CASE code = "KeyW" -> [shipControls EXCEPT !.pitchUp = FALSE]
         [] code = "KeyS" -> [shipControls EXCEPT !.pitchDown = FALSE]
         [] code = "KeyA" -> [shipControls EXCEPT !.bankLeft = FALSE]
         [] code = "KeyD" -> [shipControls EXCEPT !.bankRight = FALSE]
         [] code \in {"ShiftLeft", "ShiftRight"} ->
              IF (held \ {code}) \cap {"ShiftLeft", "ShiftRight"} = {}
              THEN [shipControls EXCEPT !.boost = FALSE, !.speed = BaseSpeed]
              ELSE shipControls
         [] code = "Space" -> [shipControls EXCEPT !.stop = FALSE]
         [] OTHER -> shipControls
  /\ IF code = "Space"
     THEN SetEx(ClearAllParticlesResult(Ex)) /\ AppCall([op |-> "clearAllParticles"])
     ELSE UNCHANGED exhaustVars

\* handleKeyUp(event)
handleKeyUp(code) ==
  /\ shipControls' =
       CASE code = "KeyW" -> [shipControls EXCEPT !.pitchUp = FALSE]
         [] code = "KeyS" -> [shipControls EXCEPT !.pitchDown = FALSE]
         [] code = "KeyA" -> [shipControls EXCEPT !.bankLeft = FALSE]
         [] code = "KeyD" -> [shipControls EXCEPT !.bankRight = FALSE]
         [] code \in {"ShiftLeft", "ShiftRight"} ->
              [shipControls EXCEPT !.boost = FALSE, !.speed = BaseSpeed]
         [] code = "Space" -> [shipControls EXCEPT !.stop = FALSE]
         [] OTHER -> shipControls
  /\ IF code = "Space"
     THEN SetEx(ClearAllParticlesResult(Ex)) /\ AppCall([op |-> "clearAllParticles"])
     ELSE UNCHANGED exhaustVars

\* what a key event leaves alone
KeyEventFrame ==
  UNCHANGED <<loaded, shipPosition, shipDirection, shipRoll, userData, visible,
              particlesPosition, rafQueue, frameCallbacks, frame, scriptPc,
              cameraPosition, systemPosition, lastAdvance, poseFrame, stepRead>>

\* a keyup takes back the keydown before it: the last event was a keydown of
\* the same key that changed the controls, and no frame has begun since
Undoes(code) ==
  /\ event.type = "keydown"
  /\ event.code = code
  /\ event.fresh
  /\ event.before # shipControls

\* a keydown event is delivered between two frames
KeyDown ==
  /\ scriptPc = "idle"
  /\ frameCallbacks = <<>>
  /\ keyEvents < MaxKeyEvents
  /\ keyEvents' = keyEvents + 1
  /\ \E code \in KeyCodes :
       /\ handleKeyDown(code)
       /\ event' = [type |-> "keydown", code |-> code, before |-> shipControls,
                    fresh |-> TRUE, undoes |-> FALSE]
       /\ held' = held \cup {code}
  /\ KeyEventFrame

\* a keyup event is delivered between two frames
KeyUp ==
  /\ scriptPc = "idle"
  /\ frameCallbacks = <<>>
  /\ keyEvents < MaxKeyEvents
  /\ keyEvents' = keyEvents + 1
  /\ \E code \in KeyCodes :
       /\ handleKeyUp(code)
       /\ event' = [type |-> "keyup", code |-> code, before |-> shipControls,
                    fresh |-> TRUE, undoes |-> Undoes(code)]
       /\ held' = held \ {code}
  /\ KeyEventFrame

\* a key that is up is pressed, before the first frame
PressKey ==
  /\ scriptPc = "idle"
  /\ frame = 0
  /\ keyEvents < MaxKeyPresses
  /\ keyEvents' = keyEvents + 1
  /\ \E code \in KeyCodes \ held :
       /\ handleKeyDown(code)
       /\ event' = [type |-> "keydown", code |-> code, before |-> shipControls,
                    fresh |-> TRUE, undoes |-> FALSE]
       /\ held' = held \cup {code}
  /\ KeyEventFrame

\* a key that is down is released, before the first frame
ReleaseKey ==
  /\ scriptPc = "idle"
  /\ frame = 0
  /\ keyEvents < MaxKeyPresses
  /\ keyEvents' = keyEvents + 1
  /\ \E code \in held :
       /\ handleKeyUp(code)
       /\ event' = [type |-> "keyup", code |-> code, before |-> shipControls,
                    fresh |-> TRUE, undoes |-> Undoes(code)]
       /\ held' = held \ {code}
  /\ KeyEventFrame

\* the script's top level: tickParticles() at line 322, then animate() at line 720
StartTickParticles ==
  /\ scriptPc = "tickParticles()"
  /\ tickParticles
  /\ scriptPc' = "animate()"
  /\ UNCHANGED <<frameCallbacks, frame>>

StartAnimate ==
  /\ scriptPc = "animate()"
  /\ animate
  /\ scriptPc' = "idle"
  /\ UNCHANGED <<frameCallbacks, frame>>

\* the browser starts an animation frame: the callbacks registered so far are
\* the ones this frame runs, in the order they were registered
BeginFrame ==
  /\ scriptPc = "idle"
  /\ frameCallbacks = <<>>
  /\ frame < MaxFrames
  /\ frame' = frame + 1
  /\ frameCallbacks' = rafQueue
  /\ rafQueue' = <<>>
  /\ UNCHANGED <<exhaustVars, shipControls, loaded, shipPosition, shipDirection, shipRoll,
                 userData, visible, particlesPosition, scriptPc, keyEvents,
                 held, cameraPosition,
                 systemPosition, lastAdvance, poseFrame, stepRead>>
  /\ event' = [event EXCEPT !.fresh = FALSE]

\* the frame runs its next callback
RunTickParticles ==
  /\ frameCallbacks # <<>>
  /\ Head(frameCallbacks) = "tickParticles"
  /\ tickParticles
  /\ frameCallbacks' = Tail(frameCallbacks)
  /\ UNCHANGED <<frame, scriptPc>>

RunAnimate ==
  /\ frameCallbacks # <<>>
  /\ Head(frameCallbacks) = "animate"
  /\ animate
  /\ frameCallbacks' = Tail(frameCallbacks)
  /\ UNCHANGED <<frame, scriptPc>>

\* ------------------------------------------------------------------------
\* createSolarSystem.js: sunEruptionSystem
\* ------------------------------------------------------------------------
\* Time is in quarters of a second, positions in quarters of a unit and
\* velocities in quarters of a unit per second.
particleCount == 2
EruptionParticles == 0..(particleCount - 1)

\* radius = 100, the sun's radius
EruptionRadius == 400
\* 1 + Math.random() * 3 seconds
EruptionLifeMin == 4
EruptionLifeSpan == 12

\* the deltas update is called with: 0, 0.25 s, 1 s and 10 s (animate does not
\* clamp the time between two frames)
EruptionDeltas == {0, 1, 4, 40}

\* the point of the sun's surface at theta = r1 * 2 * PI, phi = acos(2 * r2 - 1)
SpherePoint(r1, r2) ==
  IF r2 = <<0, 1>> THEN <<0, 0, -EruptionRadius>>
  ELSE IF r1 = <<0, 1>> THEN <<EruptionRadius, 0, 0>>
  ELSE <<-EruptionRadius, 0, 0>>

\* positions[i] * 0.01
RadialVelocity(position) == [k \in 1..3 |-> position[k] \div 100]

\* 1 + Math.random() * 3
EruptionLifetime(r) == EruptionLifeMin + Scaled(r, EruptionLifeSpan)

\* 2 + Math.random() * 3
EruptionSize(r) == RAdd(RInt(2), RMul(Rat(r[1], r[2]), RInt(3)))

\* the random draws of one spawn, at construction and in update
EruptionDraws ==
  [theta : RandomSamples, phi : RandomSamples, size : RandomLow,
   lifetime : RandomSamples, current : RandomSamples]

\* a particle as the construction loop leaves it
EruptionInitial(d) ==
  LET position == SpherePoint(d.theta, d.phi)
      lifetime == EruptionLifetime(d.lifetime)
  IN  [position |-> position,
       velocity |-> RadialVelocity(position),
       size |-> EruptionSize(d.size),
       lifeTime |-> [current |-> Scaled(d.current, lifetime), max |-> lifetime]]

\* (mutant) a respawned particle keeps the remaining life it expired with
EruptionRespawn_KeepsCurrent(q, d) ==
  LET position == SpherePoint(d.theta, d.phi)
  IN  [position |-> position,
       velocity |-> RadialVelocity(position),
       size |-> EruptionSize(d.size),
       lifeTime |-> [current |-> q.lifeTime.current, max |-> EruptionLifetime(d.lifetime)]]

\* update: the branch of a particle whose remaining life is used up
EruptionRespawn(q, d) ==
  LET position == SpherePoint(d.theta, d.phi)
      max == EruptionLifetime(d.lifetime)
  IN  [position |-> position,
       velocity |-> RadialVelocity(position),
       size |-> EruptionSize(d.size),
       lifeTime |-> [current |-> max, max |-> max]]

\* update: the branch of a particle that lives on
EruptionIntegrate(q, delta, d) ==
  [q EXCEPT
     !.position = [k \in 1..3 |-> q.position[k] + (q.velocity[k] * delta * 15) \div 4],
     !.size = RMul(EruptionSize(d.size), Rat(q.lifeTime.current, q.lifeTime.max))]

\* update: the loop body, for the particle p
EruptionParticle(p, delta) ==
  LET q == [p EXCEPT !.lifeTime.current = p.lifeTime.current - delta]
  IN  IF q.lifeTime.current <= 0
      THEN {EruptionRespawn(q, d) : d \in {e \in EruptionDraws : e.current = <<0, 1>>}}
      ELSE {EruptionIntegrate(q, delta, d) :
              d \in {e \in EruptionDraws :
                       e.current = <<0, 1>> /\ e.theta = <<0, 1>>
                       /\ e.phi = <<0, 1>> /\ e.lifetime = <<0, 1>>}}

\* the construction with every draw 0
EruptionIdle ==
  /\ sunEruptionSystem =
       [i \in EruptionParticles |->
          EruptionInitial([theta |-> <<0, 1>>, phi |-> <<0, 1>>, size |-> <<0, 1>>,
                           lifetime |-> <<0, 1>>, current |-> <<0, 1>>])]
  /\ eruptionDelta = 0

\* the particles as createSolarSystem leaves them
EruptionInit ==
  /\ sunEruptionSystem \in [EruptionParticles -> {EruptionInitial(d) : d \in EruptionDraws}]
  /\ eruptionDelta = 0

\* update: the loop over the particles, from particle i on
RECURSIVE EruptionLoop(_, _, _)
EruptionLoop(system, i, delta) ==
  IF i >= particleCount THEN {system}
  ELSE UNION {EruptionLoop([system EXCEPT ![i] = q], i + 1, delta) :
                q \in EruptionParticle(system[i], delta)}

\* sunEruptionSystem.update(delta)
eruptionUpdate(delta) ==
  /\ sunEruptionSystem' \in EruptionLoop(sunEruptionSystem, 0, delta)
  /\ eruptionDelta' = delta
  /\ UNCHANGED <<exhaustVars, appVars>>

Init == ExhaustInit /\ AppInit /\ EruptionIdle

\* the pool alone, driven through its interface
Next ==
  /\ \/ \E a \in UpdateArgs : update(a)
     \/ \E dir \in Headings : setEmitterPositions(LeftEmitterPos(dir), RightEmitterPos(dir))
     \/ clearAllParticles
     \/ \E d \in {ShipBasis, NoBasis} : init(d)
  /\ UNCHANGED <<appVars, eruptionVars>>

Spec == Init /\ [][Next]_vars

\* the page: the script, the frames and the events
NextApp ==
  /\ \/ StartTickParticles
     \/ StartAnimate
     \/ BeginFrame
     \/ RunTickParticles
     \/ RunAnimate
     \/ modelLoaded
     \/ KeyDown
     \/ KeyUp
  /\ UNCHANGED eruptionVars

SpecApp == Init /\ [][NextApp]_vars

\* the keyboard before the first frame: the script has run, and keys are
\* pressed and released
NextKeys ==
  /\ \/ StartTickParticles
     \/ StartAnimate
     \/ PressKey
     \/ ReleaseKey
  /\ UNCHANGED eruptionVars

SpecKeys == Init /\ [][NextKeys]_vars

\* the eruption particles, updated with any of the deltas
InitEruption ==
  /\ EruptionInit
  /\ AppInit
  /\ ExhaustInit
  /\ \A i \in Particles : maxLifetimes[i] = LifetimeMin

NextEruption == \E delta \in EruptionDeltas : eruptionUpdate(delta)

SpecEruption == InitEruption /\ [][NextEruption]_vars

\* ========================================================================
\* Properties of the exhaust pool (checked under Spec)
\* ========================================================================
\* the transition is a call of update / setEmitterPositions / clearAllParticles
UpdateStep == calls' = calls + 1 /\ call'.op = "update"
RepositionStep == calls' = calls + 1 /\ call'.op = "setEmitterPositions"
ResetStep == calls' = calls + 1 /\ call'.op = "clearAllParticles"

Alive(i) == lifetimes[i] < maxLifetimes[i]
Anchor(i) == emitterPositions[emitterIndices(i)]

\* the budget as the specification words it:
\* boosting ? min(3, ceil(shipSpeed)) : min(1, ceil(shipSpeed * 0.5))
SpecBudget(a) ==
  IF a.isBoost THEN Min(3, Ceil(a.shipVelocity, 10)) ELSE Min(1, Ceil(a.shipVelocity, 20))

\* C2: a step respawns at most the budget B in total, over both emitters, and
\* the spawned-this-frame counter is 0 whenever a call can start, whatever
\* calls came before.
C2_SharedBudget ==
  /\ activeParticles = 0
  /\ call.op = "update" => Cardinality(respawned) <= SpecBudget(call.args)

\* the budget binds across the emitters: an emitter-0 particle was respawned,
\* the budget is used up, and an emitter-1 particle killed by reset was left dead
C2_Witness ==
  /\ call.op = "update"
  /\ Cardinality(respawned) = SpecBudget(call.args)
  /\ \E i \in respawned : \E j \in Particles \ respawned :
       /\ emitterIndices(i) = 0
       /\ emitterIndices(j) = 1
       /\ lifetimes[j] = maxLifetimes[j] + ResetOvershoot

C4_AgeResetOnlyOnRespawn ==
  [][UpdateStep =>
       \A i \in Particles :
         /\ (lifetimes'[i] = 0) <=> (i \in respawned')
         /\ i \notin respawned' => lifetimes'[i] >= lifetimes[i]]_vars

\* a step that respawned one particle and aged another
C4_Witness ==
  /\ call.op = "update"
  /\ \E i \in respawned : \E j \in Particles \ respawned :
       lifetimes[i] = 0 /\ lifetimes[j] > 0 /\ Alive(j)

\* C5: a particle respawned by a step ends the step at the current anchor of
\* its own emitter, with age 0, a maxAge within [lifetime.min, lifetime.max]
\* and colour (0, 1, 1); it is not integrated or aged in that step.
C5_RespawnState ==
  call.op = "update" =>
    \A i \in respawned :
      /\ positions[i] = Anchor(i)
      /\ lifetimes[i] = 0
      /\ LifetimeMin <= maxLifetimes[i] /\ maxLifetimes[i] <= LifetimeMax
      /\ colors[i] = Cyan

\* a step that respawned a particle of each emitter, at two different anchors
C5_Witness ==
  /\ call.op = "update"
  /\ emitterPositions[0] # emitterPositions[1]
  /\ \E i, j \in respawned : emitterIndices(i) = 0 /\ emitterIndices(j) = 1

C7_ResetThenStep ==
  (call.op = "update" /\ call.prev = "clearAllParticles"
     /\ SpecBudget(call.args) >= Count) =>
    /\ respawned = Particles
    /\ \A i \in Particles : positions[i] = Anchor(i) /\ lifetimes[i] = 0

\* such a step, with the anchors moved away from the origin and apart
C7_Witness ==
  /\ call.op = "update"
  /\ call.prev = "clearAllParticles"
  /\ SpecBudget(call.args) >= Count
  /\ respawned = Particles
  /\ emitterPositions[0] # emitterPositions[1]

\* C8: setEmitterPositions changes the two anchors and nothing else: no
\* particle's position, velocity, age, maxAge, size or colour changes; the
\* anchors it set are the ones the next respawn and the next reset use.
C8_RepositionFrame ==
  [][/\ RepositionStep =>
          /\ emitterPositions' = (0 :> call'.args[1] @@ 1 :> call'.args[2])
          /\ UNCHANGED <<positions, velocities, lifetimes, maxLifetimes, sizes, colors>>
     /\ (call.op = "setEmitterPositions" /\ UpdateStep) =>
          \A i \in respawned' : positions'[i] = call.args[emitterIndices(i) + 1]
     /\ (call.op = "setEmitterPositions" /\ ResetStep) =>
          \A i \in Particles : positions'[i] = call.args[emitterIndices(i) + 1]]_vars

\* a reposition that moved the anchors away from a live, travelling particle
C8_Witness ==
  /\ call.op = "setEmitterPositions"
  /\ emitterPositions[0] # Zero3
  /\ \E i \in Particles : Alive(i) /\ lifetimes[i] > 0 /\ positions[i] # Anchor(i)

\* the size multiplier as the specification words it: 5r for r < 0.2, else
\* 1 - (r - 0.2) * 1.25, floored at 0
SpecSizeFactor(r) ==
  RMax(RInt(0),
       IF RLt(r, Rat(1, 5)) THEN RMul(RInt(5), r)
       ELSE RSub(RInt(1), RMul(RSub(r, Rat(1, 5)), Rat(5, 4))))

\* C9: a step sets the size of each live particle to its base size (the value
\* randomised at construction) times max(0, m(lifeRatio)), so the size depends
\* on the base size and the current lifeRatio only.
C9_SizeFromBase ==
  [][UpdateStep =>
       \A i \in Particles :
         Alive(i) =>
           sizes'[i] = RMul(baseSizes[i],
                            SpecSizeFactor(Rat(lifetimes'[i], maxLifetimes'[i])))]_vars

\* the states a call of update with arguments a could leave, as a value over
\* the primed variables
ExNext ==
  [positions |-> positions', velocities |-> velocities', sizes |-> sizes',
   colors |-> colors', lifetimes |-> lifetimes', maxLifetimes |-> maxLifetimes',
   emitterPositions |-> emitterPositions', activeParticles |-> activeParticles',
   respawned |-> respawned']

\* C10: a step with dt > 0.1 advances every live particle's age by exactly 0.1
\* and its position by velocity * 0.1, and leaves a state that the same step
\* with dt = 0.1 can leave.
C10_DeltaClamped ==
  [][(UpdateStep /\ call'.args.delta > MaxDelta) =>
       /\ \A i \in Particles :
            Alive(i) =>
              /\ lifetimes'[i] = lifetimes[i] + MaxDelta
              /\ positions'[i] = VAdd(positions[i], VScale(velocities[i], MaxDelta))
       /\ ExNext \in UpdateResults(Ex, [call'.args EXCEPT !.delta = MaxDelta])]_vars

\* the first call on a fresh pool is a step with dt above the clamp: a particle
\* born at the origin has aged 0.1 s and moved velocity * 0.1
C10_Witness ==
  /\ call.op = "update"
  /\ call.args.delta > MaxDelta
  /\ calls = 1
  /\ \E i \in Particles :
       /\ lifetimes[i] = MaxDelta
       /\ positions[i] = VScale(velocities[i], MaxDelta)
       /\ positions[i] # Zero3

\* the transition is a call of init
InitStep == calls' = calls + 1 /\ call'.op = "init"

\* the particles init may touch, as the specification words it
WarmSet == {i \in Particles : i < Min(InitialParticleLimit, Count)}

\* C11: init modifies at most min(limit, pool size) particles and leaves each
\* of them alive and mid-life, 0 <= age < maxAge; every other particle keeps
\* its position, velocity, age, maxAge and colour.
C11_WarmStartFrame ==
  [][InitStep =>
       /\ \A i \in WarmSet : 0 <= lifetimes'[i] /\ lifetimes'[i] < maxLifetimes'[i]
       /\ \A i \in Particles \ WarmSet :
            /\ positions'[i] = positions[i]
            /\ velocities'[i] = velocities[i]
            /\ lifetimes'[i] = lifetimes[i]
            /\ maxLifetimes'[i] = maxLifetimes[i]
            /\ colors'[i] = colors[i]]_vars

\* init revived a particle that reset had killed and gave it a staggered age,
\* while a particle beyond the limit was left dead by the same call
C11_Witness ==
  /\ call.op = "init"
  /\ \E i \in WarmSet : Alive(i) /\ lifetimes[i] > 0
  /\ \E j \in Particles \ WarmSet : lifetimes[j] = maxLifetimes[j] + ResetOvershoot

\* ========================================================================
\* Properties of the frame loop (checked under SpecApp)
\* ========================================================================

\* C1: in every rendered frame the flight-control advance in animate completes
\* before the exhaust tick repositions and steps the pool, so the exhaust step
\* reads the ship pose that animate produced in the same frame.
C1_StepReadsSameFramePose == stepRead.frame = stepRead.poseFrame

\* the transition is the delivery of a key event
KeyStep == keyEvents' = keyEvents + 1

Flags == {"pitchUp", "pitchDown", "bankLeft", "bankRight", "boost", "stop"}

\* the control flag a key code stands for, as the specification words it
FlagOf(code) ==
  CASE code = "KeyW" -> "pitchUp"
    [] code = "KeyS" -> "pitchDown"
    [] code = "KeyA" -> "bankLeft"
    [] code = "KeyD" -> "bankRight"
    [] code \in {"ShiftLeft", "ShiftRight"} -> "boost"
    [] code = "Space" -> "stop"

\* C12: a keydown of one of the six controls sets exactly its flag to true, a
\* keyup sets the same flag to false; the five other flags are unchanged, and
\* the speed changes only on boost events.
C12_KeySetsOneFlag ==
  [][KeyStep =>
       LET flag == FlagOf(event'.code)
       IN  /\ shipControls'[flag] = (event'.type = "keydown")
           /\ \A other \in Flags \ {flag} : shipControls'[other] = shipControls[other]
           /\ flag # "boost" => shipControls'.speed = shipControls.speed]_vars

\* a keydown set a flag while another flag, set by an earlier event, stayed set
C12_Witness ==
  /\ event.type = "keydown"
  /\ event.code = "KeyW"
  /\ event.before.boost /\ ~event.before.pitchUp
  /\ shipControls.pitchUp /\ shipControls.boost /\ ~shipControls.pitchDown
  /\ shipControls.speed = BoostSpeed

\* C13: in every reachable state the speed is boostSpeed when the boost flag
\* is set and baseSpeed when it is not.
C13_SpeedFollowsBoost ==
  shipControls.speed = IF shipControls.boost THEN BoostSpeed ELSE BaseSpeed

\* a keyup of shift found the ship boosting at boostSpeed and left it at baseSpeed
C13_Witness ==
  /\ event.type = "keyup"
  /\ event.code \in {"ShiftLeft", "ShiftRight"}
  /\ event.before.boost /\ event.before.speed = BoostSpeed
  /\ ~shipControls.boost /\ shipControls.speed = BaseSpeed

\* C14: the keydown and the keyup of stop each reset the exhaust pool in the
\* event itself, not in a frame: right after the event every particle has
\* age >= maxAge.
C14_StopEventsReset ==
  [][(KeyStep /\ event'.code = "Space") =>
       /\ \A i \in Particles : lifetimes'[i] >= maxLifetimes'[i]
       /\ frame' = frame /\ frameCallbacks' = frameCallbacks]_vars

\* stop was released after the pool had been warmed and stepped, and the
\* whole pool is dead at its anchors
C14_Witness ==
  /\ event.type = "keyup" /\ event.code = "Space" /\ event.before.stop
  /\ call.op = "clearAllParticles"
  /\ userData.initialized /\ frame >= 1
  /\ \A i \in Particles : ~Alive(i) /\ positions[i] = Anchor(i)

\* the transition is one run of animate, the flight-control advance
AdvanceStep == rafQueue' = Append(rafQueue, "animate")

\* C15: with the stop flag set by a keydown of stop, the next flight-control
\* advance leaves all three coordinates of the ship position as they were,
\* whatever the other flags are.
C15_StopHoldsPosition ==
  [][(AdvanceStep /\ shipControls.stop) => shipPosition' = shipPosition]_vars

\* C16: with all six control flags false, one flight-control advance moves the
\* ship by exactly speed along its unit forward vector and by nothing else.
C16_PureForwardTranslation ==
  [][(AdvanceStep /\ \A flag \in Flags : ~shipControls[flag]) =>
       shipPosition' = VAdd(shipPosition, Along(shipDirection, shipControls.speed * 100))]_vars

\* the fixed offset transformed by the world matrix of the ship's pose
CameraTarget(position, direction, roll) ==
  ApplyMatrix(cameraOffset, [position |-> position, direction |-> direction, roll |-> roll])

\* C17: for a ship whose pose an advance leaves as it was, the camera update
\* without boost puts the camera exactly at the offset (0,1,2) transformed by
\* the ship's world matrix; with boost the camera moves 0.05 of the way from
\* its previous position to that target (to the thousandth).
C17_CameraFollow ==
  [][(AdvanceStep /\ shipPosition' = shipPosition /\ shipDirection' = shipDirection
        /\ shipRoll' = shipRoll) =>
       LET target == CameraTarget(shipPosition', shipDirection', shipRoll')
       IN  IF shipControls.boost
           THEN \A k \in 1..3 :
                  Abs(20 * (cameraPosition'[k] - cameraPosition[k])
                      - (target[k] - cameraPosition[k])) < 20
           ELSE cameraPosition' = target]_vars

\* an advance without boost left the stopped ship where it was and brought a
\* camera that was off the target exactly onto it
C17_Witness ==
  /\ lastAdvance.ran
  /\ lastAdvance.position = shipPosition /\ lastAdvance.direction = shipDirection
  /\ lastAdvance.roll = shipRoll
  /\ shipControls.stop /\ ~shipControls.boost
  /\ lastAdvance.camera # cameraPosition
  /\ cameraPosition = CameraTarget(shipPosition, shipDirection, shipRoll)

\* C18: at every frame each of the nine planets is in the plane y = 0 at the
\* distance radiusAU * AU_SCALE from its parent's origin: its position is that
\* distance times a point of the unit circle.
C18_CircularOrbits ==
  \A b \in Planets :
    LET radius == (AU_SCALE * AU[b]) \div 100
        x == systemPosition[b][1]
        z == systemPosition[b][3]
    IN  /\ systemPosition[b][2] = 0
        /\ x % radius = 0 /\ z % radius = 0
        /\ (x \div radius) * (x \div radius) + (z \div radius) * (z \div radius) = 25

\* the transition is an exhaust tick that ran a step
TickStep == rafQueue' = Append(rafQueue, "tickParticles") /\ stepRead'.frame = frame

\* C20: in an exhaust tick that runs a step, if the boost flag differs from
\* the one recorded by the previous such tick, or the ship's backward
\* direction is more than 0.174 rad off the recorded one, the whole pool is
\* reset before the step: every particle the step did not respawn is left
\* dead at its anchor.  In the first such tick, with no direction recorded,
\* there is no reset: the particles that were alive are integrated.
C20_ResetOnChange ==
  [][(TickStep /\ loaded /\ ~shipControls.stop) =>
       LET backwardDir == VNeg(shipDirection)
           recorded == userData.lastDirection # Null
       IN  /\ (recorded /\ (userData.lastBoostState # shipControls.boost
                            \/ Dot(backwardDir, userData.lastDirection) * 40 < 985)) =>
                \A i \in Particles \ respawned' :
                  /\ lifetimes'[i] = maxLifetimes'[i] + ResetOvershoot
                  /\ positions'[i] = emitterPositions'[emitterIndices(i)]
           /\ ~recorded =>
                \A i \in Particles :
                  Alive(i) => lifetimes'[i] = lifetimes[i] + TickDelta]_vars

\* a tick reset the pool because the ship had turned, with the boost flag as
\* recorded, and the step's budget left a particle dead at its anchor
C20_Witness ==
  /\ call.op = "update" /\ call.prev = "clearAllParticles"
  /\ stepRead.frame = frame /\ frame >= 2
  /\ ~shipControls.boost /\ keyEvents = 1 /\ event.code \in {"KeyA", "KeyD"}
  /\ \E i \in Particles \ respawned : lifetimes[i] = maxLifetimes[i] + ResetOvershoot

\* ========================================================================
\* Properties of the eruption particles (checked under SpecEruption)
\* ========================================================================

\* C19: after an update with any delta >= 0 every eruption particle has
\* 0 < current <= max and 1 s <= max <= 4 s; a particle whose remaining life
\* reached <= 0 in the update was respawned in it, with current = max, on the
\* sun's surface (not integrated) and with velocity 0.01 times its position.
C19_EruptionLife ==
  [][\A i \in EruptionParticles :
       LET p == sunEruptionSystem[i]
           q == sunEruptionSystem'[i]
       IN  /\ 0 < q.lifeTime.current /\ q.lifeTime.current <= q.lifeTime.max
           /\ 4 <= q.lifeTime.max /\ q.lifeTime.max <= 16
           /\ p.lifeTime.current - eruptionDelta' <= 0 =>
                /\ q.lifeTime.current = q.lifeTime.max
                /\ \A k \in 1..3 : 100 * q.velocity[k] = q.position[k]
                /\ Dot(q.position, q.position) = EruptionRadius * EruptionRadius]_vars

\* an update with a delta of 10 s, longer than any lifetime, respawned every
\* particle, one of them with the longer lifetime
C19_Witness ==
  /\ eruptionDelta = 40
  /\ \A i \in EruptionParticles :
       sunEruptionSystem[i].lifeTime.current = sunEruptionSystem[i].lifeTime.max
  /\ \E i \in EruptionParticles :
       /\ sunEruptionSystem[i].lifeTime.max > EruptionLifeMin
       /\ sunEruptionSystem[i].position = <<EruptionRadius, 0, 0>>

\* ------------------------------------------------------------------------
\* Properties of the key handlers between frames (under SpecApp)
\* ------------------------------------------------------------------------
\* the program's state other than the control flags
ProgramState ==
  <<positions, velocities, sizes, colors, lifetimes, maxLifetimes, emitterPositions,
    activeParticles, baseSizes, loaded, shipPosition, shipDirection, shipRoll,
    userData, visible, particlesPosition, rafQueue, frameCallbacks, cameraPosition,
    systemPosition>>

\* C21: key events are not queued.  An event of one of the keys for pitch,
\* bank and boost changes nothing but the controls; and a keyup that follows
\* the keydown of the same key with no frame begun in between, the key's flag
\* having been false before the keydown, leaves the controls as they were
\* before the keydown.  The program is then in the state it was in before the
\* two events, so the next advance and exhaust tick run as without them.
C21_KeyPairLeavesNoTrace ==
  [][(KeyStep /\ event'.code # "Space") =>
       /\ UNCHANGED ProgramState
       /\ (/\ event'.type = "keyup"
           /\ event.type = "keydown"
           /\ event.code = event'.code
           /\ event.fresh
           /\ ~event.before[FlagOf(event.code)]) => shipControls' = event.before]_vars

\* after a frame, with the model loaded, shift was pressed with boost off and
\* released before the next frame began
C21_Witness ==
  /\ event.type = "keyup" /\ event.undoes /\ event.fresh
  /\ event.code = "ShiftLeft"
  /\ event.before.boost /\ ~shipControls.boost /\ shipControls.speed = BaseSpeed
  /\ frame >= 1 /\ loaded

DeadBelow(i) == {j \in Particles : j < i /\ ~Alive(j)}

\* C25: within one step respawning goes in ascending pool index until the
\* shared budget is used up: a dead particle i is respawned exactly if fewer
\* than budget dead particles have an index below i at the start of the step.
\* So when at least budget particles of emitter 0 are dead at the start of a
\* step, the step respawns no particle of emitter 1.
C25_AscendingRespawn ==
  [][UpdateStep =>
       LET budget == SpecBudget(call'.args)
           deadOfEmitter0 == {j \in Particles : emitterIndices(j) = 0 /\ ~Alive(j)}
       IN  /\ \A i \in Particles :
                i \in respawned' <=> (~Alive(i) /\ Cardinality(DeadBelow(i)) < budget)
           /\ Cardinality(deadOfEmitter0) >= budget =>
                \A i \in respawned' : emitterIndices(i) = 0]_vars

\* a step used its whole budget on emitter 0 and left a dead particle of
\* emitter 1, of higher index, dead
C25_Witness ==
  /\ call.op = "update"
  /\ respawned # {}
  /\ Cardinality(respawned) = SpecBudget(call.args)
  /\ \E j \in Particles \ respawned :
       /\ ~Alive(j) /\ emitterIndices(j) = 1
       /\ \A i \in respawned : i < j /\ emitterIndices(i) = 0

\* C26: a particle that is dead at its turn in a step and is not respawned,
\* the budget being used up, is left by the step exactly as it was: position,
\* velocity, age, maxAge, size and colour.
C26_DeadLeftAlone ==
  [][UpdateStep =>
       \A i \in Particles :
         (~Alive(i) /\ i \notin respawned') =>
           /\ positions'[i] = positions[i]
           /\ velocities'[i] = velocities[i]
           /\ lifetimes'[i] = lifetimes[i]
           /\ maxLifetimes'[i] = maxLifetimes[i]
           /\ sizes'[i] = sizes[i]
           /\ colors'[i] = colors[i]]_vars

\* a particle that died of age away from its anchor was passed over by a step
\* that used its budget on another one
C26_Witness ==
  /\ call.op = "update"
  /\ respawned # {}
  /\ \E j \in Particles \ respawned :
       /\ ~Alive(j)
       /\ lifetimes[j] < maxLifetimes[j] + ResetOvershoot
       /\ positions[j] # Anchor(j)
       /\ colors[j] # Cyan

\* ------------------------------------------------------------------------
\* Further properties of the frame loop (under SpecApp)
\* ------------------------------------------------------------------------
\* the transition is one run of tickParticles, the exhaust tick
ExhaustTick == rafQueue' = Append(rafQueue, "tickParticles")

\* C27: while the stop flag is true an exhaust tick returns before it
\* repositions the pool, looks for a change and steps: no particle is
\* respawned, aged or moved, the anchors and the pool's position stay, and the
\* recorded direction and boost state are not updated.  After every exhaust
\* tick the pool is visible exactly if the stop flag is false.
C27_StoppedTickIdle ==
  [][ExhaustTick =>
       /\ visible' = ~shipControls.stop
       /\ shipControls.stop =>
            UNCHANGED <<positions, velocities, lifetimes, maxLifetimes, sizes, colors,
                        emitterPositions, activeParticles, particlesPosition,
                        userData>>]_vars

\* a whole frame ran with the ship stopped and boosting, after ticks that had
\* recorded no boost: the pool is hidden and the record is as it was
C27_Witness ==
  /\ shipControls.stop /\ shipControls.boost
  /\ ~visible
  /\ userData.lastDirection # Null /\ userData.lastBoostState = FALSE
  /\ frame >= 2 /\ frameCallbacks = <<>> /\ ~event.fresh
  /\ stepRead.frame >= 1 /\ stepRead.frame < frame

\* C28: init runs at most once in a session: the load callback and the tick
\* both guard it with the initialized flag, which is set exactly when init has
\* run.  No step runs before init, and a tick does not reposition, warm or
\* step the pool before the ship's model has been added.
C28_InitOnce ==
  [][/\ initCalls' <= 1
     /\ userData'.initialized <=> initCalls' = 1
     /\ stepRead' # stepRead => (initCalls' = 1 /\ loaded)
     /\ (ExhaustTick /\ ~loaded) =>
          UNCHANGED <<positions, velocities, lifetimes, maxLifetimes, sizes, colors,
                      emitterPositions, particlesPosition, userData, stepRead>>]_vars

\* init has run once, and a tick of the second or a later frame, which found
\* the flag set, stepped the pool without warming it again
C28_Witness ==
  /\ initCalls = 1 /\ userData.initialized /\ loaded
  /\ call.op = "update" /\ call.prev # "init"
  /\ stepRead.frame = frame /\ frame >= 2
  /\ userData.lastDirection # Null

\* the displacement of an advance along the ship's right vector, times 5
Sideways ==
  Dot(VAdd(shipPosition', VNeg(shipPosition)), RightOf(shipDirection))

\* C23: an advance blends the orientation toward the target composed from the
\* inputs, with factor 0.1, exactly when stop is false and at least one of
\* pitchUp, pitchDown, bankLeft, bankRight is true.  In every other case, a
\* stopped ship with the keys held included, it blends toward the level
\* orientation with factor 0.02: the heading and the pitch stay, the roll goes
\* to level, and the ship is not moved sideways.
C23_BlendBranch ==
  [][AdvanceStep =>
       LET c == shipControls
           input == ~c.stop /\ (c.pitchUp \/ c.pitchDown \/ c.bankLeft \/ c.bankRight)
           up == IF c.pitchUp THEN 1 ELSE 0
           down == IF c.pitchDown THEN 1 ELSE 0
           left == IF c.bankLeft THEN 1 ELSE 0
           right == IF c.bankRight THEN 1 ELSE 0
           level == LevelOf(shipDirection)
       IN  IF input
           THEN /\ lastAdvance'.slerp = [to |-> "targetRotation", t |-> 100]
                /\ PitchOf(shipDirection') = Max(-1, Min(1, PitchOf(shipDirection) + up - down))
                /\ shipRoll' = Max(-1, Min(1, shipRoll + right - left))
                /\ LevelOf(shipDirection') =
                     IF left > right THEN TurnLeft(level)
                     ELSE IF right > left THEN TurnRight(level) ELSE level
           ELSE /\ lastAdvance'.slerp = [to |-> "levelRotation", t |-> 20]
                /\ shipDirection' = shipDirection
                /\ shipRoll' = 0
                /\ Sideways = 0]_vars

\* the ship, banked to the left by an earlier advance, was stopped with the
\* bank key still held: the advance levelled it and did not turn it
C23_Witness ==
  /\ lastAdvance.ran
  /\ lastAdvance.controls.stop /\ lastAdvance.controls.bankLeft
  /\ lastAdvance.slerp.to = "levelRotation"
  /\ lastAdvance.roll = -1 /\ shipRoll = 0
  /\ lastAdvance.direction = shipDirection

\* C24: with bankLeft and bankRight both true and stop false, an advance runs
\* the left branch and then the right branch: the two sideways translations,
\* +speed * 0.05 and -speed * 0.05 along the same right vector, cancel, so the
\* ship moves in the horizontal plane by the forward translation alone; and
\* the orientation is blended with factor 0.1 toward the composed target, not
\* levelled.
C24_BothBanksCancel ==
  [][(/\ AdvanceStep
      /\ shipControls.bankLeft /\ shipControls.bankRight /\ ~shipControls.stop) =>
       LET forward == Along(shipDirection, shipControls.speed * 100)
       IN  /\ Sideways = 0
           /\ shipPosition'[1] = shipPosition[1] + forward[1]
           /\ shipPosition'[3] = shipPosition[3] + forward[3]
           /\ lastAdvance'.slerp = [to |-> "targetRotation", t |-> 100]]_vars

\* an advance found both bank keys held: the ship kept its heading and moved
\* forward only, on the branch of the composed target
C24_Witness ==
  /\ lastAdvance.ran
  /\ lastAdvance.controls.bankLeft /\ lastAdvance.controls.bankRight
  /\ ~lastAdvance.controls.stop
  /\ lastAdvance.slerp.to = "targetRotation"
  /\ shipDirection = lastAdvance.direction
  /\ shipPosition[1] = lastAdvance.position[1]
  /\ shipPosition[3] =
       lastAdvance.position[3]
         + Along(lastAdvance.direction, lastAdvance.controls.speed * 100)[3]
  /\ shipPosition[3] # lastAdvance.position[3]

\* C30: every advance first overwrites the ship's y with the float bob,
\* sin(now * 0.001) * floatAmount with floatAmount 0 while pitchUp or pitchDown
\* is true and 2 otherwise, so the height reached in earlier frames is
\* discarded: the y after the advance is the bob plus the vertical part of
\* this advance's forward translation, and |y| <= 2 + speed.
C30_HeightOverwritten ==
  [][AdvanceStep =>
       LET c == shipControls
           floatAmount == IF c.pitchUp \/ c.pitchDown THEN 0 ELSE 2
           forward == IF c.stop THEN Zero3 ELSE Along(shipDirection, c.speed * 100)
       IN  /\ \E sin \in SinSamples : shipPosition'[2] = sin * floatAmount + forward[2]
           /\ Abs(shipPosition'[2]) <= 2000 + c.speed * 100]_vars

\* the ship, pitched up and put at the height 20 by the load callback, came
\* out of the next advance at the bob's height 2 plus the rise of one frame
C30_Witness ==
  /\ lastAdvance.ran
  /\ lastAdvance.position[2] = 20000
  /\ lastAdvance.direction[2] > 0
  /\ ~lastAdvance.controls.pitchUp /\ ~lastAdvance.controls.stop
  /\ shipPosition[2] =
       2000 + Along(lastAdvance.direction, lastAdvance.controls.speed * 100)[2]
  /\ shipPosition[2] > 2000

\* ------------------------------------------------------------------------
\* Properties of the keyboard (under SpecKeys)
\* ------------------------------------------------------------------------
ShiftKeys == {"ShiftLeft", "ShiftRight"}

\* C29: boost is one boolean for both shift keys, not a count of the keys
\* held: once a shift key has been released, boost is false and the speed is
\* baseSpeed, also while the other shift key is still down, as after
\* keydown ShiftLeft, keydown ShiftRight, keyup ShiftLeft.
C29_BoostNotCounted ==
  (/\ event.type = "keyup"
   /\ event.code \in ShiftKeys
   /\ held \cap ShiftKeys # {}) =>
     (~shipControls.boost /\ shipControls.speed = BaseSpeed)

\* both shift keys were pressed and the left one released: the right one is
\* still down, and boost, which the release found on, is off
C29_Witness ==
  /\ keyEvents = 3
  /\ event.type = "keyup" /\ event.code = "ShiftLeft"
  /\ held = {"ShiftRight"}
  /\ event.before.boost /\ event.before.speed = BoostSpeed
  /\ ~shipControls.boost /\ shipControls.speed = BaseSpeed

====
